---- MODULE Spec2Model ----
(***************************************************************************)
(* PM ingestion-and-query engine (pm_ingest.py, pm_query.py).              *)
(*                                                                         *)
(* Text is modelled as sequences of one-character strings so that the      *)
(* string operations of the code (regular-expression substitution,         *)
(* replace, strip, lower, substring tests, path joining) are computed      *)
(* character by character.  A missing cell (NaN / NA / NaT) is the empty   *)
(* sequence: read_csv never delivers an empty string, it delivers NaN.     *)
(***************************************************************************)
EXTENDS Integers, Sequences, FiniteSets, TLC

(***************************************************************************)
(* Characters and elementary string operations                             *)
(***************************************************************************)
NA == <<>>

IsNa(s) == s = NA

Digits == {"0", "1", "2", "3", "4", "5", "6", "7", "8", "9"}

IsDigit(c) == c \in Digits

DigitVal(c) ==
  CASE c = "0" -> 0 [] c = "1" -> 1 [] c = "2" -> 2 [] c = "3" -> 3
    [] c = "4" -> 4 [] c = "5" -> 5 [] c = "6" -> 6 [] c = "7" -> 7
    [] c = "8" -> 8 [] c = "9" -> 9

\* a text that is a number
IsNumeric(c) == c # <<>> /\ \A i \in 1..Len(c) : IsDigit(c[i])

IsSpace(c) == c = " "

\* str.lower() on one character (the letters the inputs use)
LowerChar(c) ==
  CASE c = "A" -> "a" [] c = "C" -> "c" [] c = "E" -> "e" [] c = "H" -> "h"
    [] c = "I" -> "i" [] c = "K" -> "k" [] c = "M" -> "m" [] c = "N" -> "n"
    [] c = "O" -> "o" [] c = "P" -> "p" [] c = "S" -> "s" [] c = "T" -> "t"
    [] OTHER -> c

Lower(s) == [i \in 1..Len(s) |-> LowerChar(s[i])]

\* str.replace(from, to) for a one-character `from`
ReplaceChar(s, from, to) == [i \in 1..Len(s) |-> IF s[i] = from THEN to ELSE s[i]]

RECURSIVE LStrip(_)
LStrip(s) == IF s # <<>> /\ IsSpace(Head(s)) THEN LStrip(Tail(s)) ELSE s

RECURSIVE RStrip(_)
RStrip(s) ==
  IF s # <<>> /\ IsSpace(s[Len(s)]) THEN RStrip(SubSeq(s, 1, Len(s) - 1)) ELSE s

\* str.strip()
Strip(s) == RStrip(LStrip(s))

\* literal substring test: sub in s
Contains(s, sub) ==
  \E i \in 0..(Len(s) - Len(sub)) : SubSeq(s, i + 1, i + Len(sub)) = sub

(***************************************************************************)
(* clean_time (pm_ingest.py 63-73)                                         *)
(***************************************************************************)
\* re.sub(open .*? close, '', s): leftmost, non-greedy, non-overlapping
RECURSIVE StripDelims(_, _, _)
StripDelims(s, open, close) ==
  IF s = <<>> THEN <<>>
  ELSE IF Head(s) = open /\ \E j \in 2..Len(s) : s[j] = close
       THEN LET j == CHOOSE j \in 2..Len(s) :
                       s[j] = close /\ \A k \in 2..(j - 1) : s[k] # close
            IN  StripDelims(SubSeq(s, j + 1, Len(s)), open, close)
       ELSE <<Head(s)>> \o StripDelims(Tail(s), open, close)

\* re.sub(r'(\d)\.(\d)\.(\d)', r'\1:\2:\3', s): leftmost, non-overlapping
RECURSIVE DotTriples(_)
DotTriples(s) ==
  IF Len(s) < 5 THEN s
  ELSE IF /\ IsDigit(s[1]) /\ s[2] = "." /\ IsDigit(s[3])
          /\ s[4] = "." /\ IsDigit(s[5])
       THEN <<s[1], ":", s[3], ":", s[5]>> \o DotTriples(SubSeq(s, 6, Len(s)))
       ELSE <<Head(s)>> \o DotTriples(Tail(s))

clean_time(s) ==
  IF IsNa(s) THEN s
  ELSE Strip(DotTriples(ReplaceChar(
         StripDelims(StripDelims(s, "(", ")"), "[", "]"), "/", "-")))

(***************************************************************************)
(* pd.to_datetime(..., errors='coerce') (pm_ingest.py 110).                *)
(* The accepted texts are  M-D  and  M-D h:m:s  (the year is elided); each *)
(* field is one or two digits and must be in range.  Anything else, and a  *)
(* missing value, is NaT.                                                  *)
(***************************************************************************)
NaT == -1

\* the longest prefix of digits, at most two
NumLen(s) ==
  IF Len(s) >= 2 /\ IsDigit(s[1]) /\ IsDigit(s[2]) THEN 2
  ELSE IF Len(s) >= 1 /\ IsDigit(s[1]) THEN 1 ELSE 0

NumVal(s, n) == IF n = 2 THEN 10 * DigitVal(s[1]) + DigitVal(s[2]) ELSE DigitVal(s[1])

\* s = num sep rest: <<ok, value, rest>>; sep = "" means the number ends s
TakeNum(s, sep) ==
  LET n == NumLen(s) IN
  IF n = 0 THEN <<FALSE, 0, <<>>>>
  ELSE IF sep = "" THEN <<Len(s) = n, NumVal(s, n), <<>>>>
  ELSE IF Len(s) > n /\ s[n + 1] = sep
       THEN <<TRUE, NumVal(s, n), SubSeq(s, n + 2, Len(s))>>
       ELSE <<FALSE, 0, <<>>>>

SecondsPerDay == 24 * 60 * 60

ParseClock(s) ==
  LET h == TakeNum(s, ":")
      m == TakeNum(h[3], ":")
      x == TakeNum(m[3], "")
  IN  IF h[1] /\ m[1] /\ x[1] /\ h[2] < 24 /\ m[2] < 60 /\ x[2] < 60
      THEN (h[2] * 60 + m[2]) * 60 + x[2]
      ELSE NaT

ParseDate(s) ==
  LET mo == TakeNum(s, "-")
      d  == TakeNum(mo[3], "")
  IN  IF mo[1] /\ d[1] /\ mo[2] \in 1..12 /\ d[2] \in 1..31
      THEN mo[2] * 100 + d[2]
      ELSE NaT

to_datetime(s) ==
  IF IsNa(s) THEN NaT
  ELSE IF \E i \in 1..Len(s) : s[i] = " "
       THEN LET i == CHOOSE i \in 1..Len(s) : s[i] = " " /\ \A k \in 1..(i - 1) : s[k] # " "
                d == ParseDate(SubSeq(s, 1, i - 1))
                c == ParseClock(SubSeq(s, i + 1, Len(s)))
            IN  IF d = NaT \/ c = NaT THEN NaT ELSE d * SecondsPerDay + c
       ELSE LET d == ParseDate(s) IN IF d = NaT THEN NaT ELSE d * SecondsPerDay

\* Series.dt.strftime('%Y-%m-%d'): the calendar date of a timestamp
DateStr(ts) == ts \div SecondsPerDay

(***************************************************************************)
(* Text constants                                                          *)
(***************************************************************************)
S_NE == <<"N", "E">>
S_TP == <<"T", "P">>
S_Time == <<"T", "i", "m", "e">>
S_time == <<"t", "i", "m", "e">>
S_date == <<"_", "_", "d", "a", "t", "e">>
S_NS == <<"N", "S">>
S_NAtext == <<"N", "A">>
S_nan == <<"n", "a", "n">>
S_UNKNOWN_NE == <<"U", "N", "K", "N", "O", "W", "N", "_", "N", "E">>

\* ASCII order of the characters that occur in element identifiers
Alphabet == <<"/", "0", "1", "2", "3", "4", "5", "6", "7", "8", "9", "=",
              "A", "B", "C", "D", "E", "H", "I", "K", "M", "N", "O", "P", "S",
              "T", "U", "W", "\\", "_", "a", "c", "d", "e", "h", "i", "k", "m",
              "n", "o", "s", "t", "x">>

CharCode(c) ==
  IF \E i \in 1..Len(Alphabet) : Alphabet[i] = c
  THEN CHOOSE i \in 1..Len(Alphabet) : Alphabet[i] = c
  ELSE 0

\* s < t in Python's string order
RECURSIVE StrLess(_, _)
StrLess(s, t) ==
  IF t = <<>> THEN FALSE
  ELSE IF s = <<>> THEN TRUE
  ELSE IF Head(s) = Head(t) THEN StrLess(Tail(s), Tail(t))
  ELSE CharCode(Head(s)) < CharCode(Head(t))

(***************************************************************************)
(* Tables.  A table (a CSV chunk, a DataFrame, a segment) is               *)
(* [cols: sequence of labels, rows: sequence of rows]; a row is a sequence *)
(* of cells aligned with cols.                                             *)
(***************************************************************************)
\* index of the first column with exactly this label, 0 when there is none
ColIndex(cols, label) ==
  IF \E i \in 1..Len(cols) : cols[i] = label
  THEN CHOOSE i \in 1..Len(cols) : cols[i] = label /\ \A k \in 1..(i - 1) : cols[k] # label
  ELSE 0

HasCol(cols, label) == ColIndex(cols, label) # 0

\* pd.read_csv default na_values: an empty field and the text NA are NaN
ReadCsvCell(c) == IF c = <<>> \/ c = S_NAtext THEN NA ELSE c

\* a reader that delivers the rest of the file at once
ReadChunk_whole(file, off, chunksize) ==
  [cols |-> file.header,
   rows |-> [i \in 1..(Len(file.rows) - off) |->
               [j \in 1..Len(file.header) |-> ReadCsvCell(file.rows[off + i][j])]]]

\* the chunk of at most chunksize rows that starts after row off
ReadChunk(file, off, chunksize) ==
  LET last == IF off + chunksize < Len(file.rows) THEN off + chunksize ELSE Len(file.rows)
  IN  [cols |-> file.header,
       rows |-> [i \in 1..(last - off) |->
                   [j \in 1..Len(file.header) |-> ReadCsvCell(file.rows[off + i][j])]]]

(***************************************************************************)
(* One batch of ingest_folder (pm_ingest.py 98-131), as a function of the  *)
(* chunk read_csv delivered                                                *)
(***************************************************************************)
\* line 99: chunk.columns = [str(c).strip() for c in chunk.columns]
NormalizeCols(cols) == [i \in 1..Len(cols) |-> Strip(cols[i])]

\* lines 102-106: the first column whose label is "time", case-insensitively; 0 = none
TimeColIndex(cols) ==
  LET hit(i) == Lower(Strip(cols[i])) = S_time IN
  IF \E i \in 1..Len(cols) : hit(i)
  THEN CHOOSE i \in 1..Len(cols) : hit(i) /\ \A k \in 1..(i - 1) : ~hit(k)
  ELSE 0

\* lines 109-110: clean and parse the time column
ParseTimes(rows, tc) ==
  [i \in 1..Len(rows) |-> [rows[i] EXCEPT ![tc] = to_datetime(clean_time(rows[i][tc]))]]

\* lines 109-110 on their own: the instant each row's time field parses to, NaT where
\* it does not parse; no instants when the chunk has no time column
ChunkInstants(chunk) ==
  LET tc == TimeColIndex(NormalizeCols(chunk.cols)) IN
  IF tc = 0 THEN <<>>
  ELSE LET parsed == ParseTimes(chunk.rows, tc) IN [k \in 1..Len(parsed) |-> parsed[k][tc]]

\* a batch that keeps the rows whose time did not parse
DropNaT_keep(rows, tc) == rows

\* line 111: chunk.dropna(subset=[time_col])
DropNaT(rows, tc) == SelectSeq(rows, LAMBDA r : r[tc] # NaT)

\* Series.astype(str): a missing value becomes the text nan
AsTypeStr(c) == IF IsNa(c) THEN S_nan ELSE c

\* the sentinel spelled UNKNOWN
S_UNKNOWN == <<"U", "N", "K", "N", "O", "W", "N">>

\* a batch without NE column that is given the sentinel UNKNOWN
WithNE_unknown(t) ==
  LET n == ColIndex(t.cols, S_NE) IN
  IF n # 0
  THEN [t EXCEPT !.rows = [i \in 1..Len(t.rows) |->
                             [t.rows[i] EXCEPT ![n] = AsTypeStr(t.rows[i][n])]]]
  ELSE [cols |-> Append(t.cols, S_NE),
        rows |-> [i \in 1..Len(t.rows) |-> Append(t.rows[i], S_UNKNOWN)]]

\* lines 116-119
WithNE(t) ==
  LET n == ColIndex(t.cols, S_NE) IN
  IF n # 0
  THEN [t EXCEPT !.rows = [i \in 1..Len(t.rows) |->
                             [t.rows[i] EXCEPT ![n] = AsTypeStr(t.rows[i][n])]]]
  ELSE [cols |-> Append(t.cols, S_NE),
        rows |-> [i \in 1..Len(t.rows) |-> Append(t.rows[i], S_UNKNOWN_NE)]]

\* line 122: chunk['__date'] = chunk[time_col].dt.strftime('%Y-%m-%d')
WithDate(t, tc) ==
  [cols |-> Append(t.cols, S_date),
   rows |-> [i \in 1..Len(t.rows) |-> Append(t.rows[i], DateStr(t.rows[i][tc]))]]

\* line 125: chunk.replace({'NS': pd.NA, '': pd.NA, 'NA': pd.NA}) on every text column
\* (the timestamp column and the date column hold no such text)
MissingTokens == {S_NS, <<>>, S_NAtext}

ReplaceMissing(t, tc) ==
  LET dc == Len(t.cols) IN
  [t EXCEPT !.rows = [i \in 1..Len(t.rows) |->
     [j \in 1..Len(t.cols) |->
        IF j = tc \/ j = dc THEN t.rows[i][j]
        ELSE IF t.rows[i][j] \in MissingTokens THEN NA ELSE t.rows[i][j]]]]

\* line 129: groupby(['NE', '__date']) drops the rows whose key is missing and
\* yields the groups in ascending key order
GroupKeys(t) ==
  LET n == ColIndex(t.cols, S_NE)
      d == Len(t.cols)
  IN  {<<t.rows[i][n], t.rows[i][d]>> : i \in {k \in 1..Len(t.rows) : ~IsNa(t.rows[k][n])}}

KeyLess(a, b) == StrLess(a[1], b[1]) \/ (a[1] = b[1] /\ a[2] < b[2])

RECURSIVE SortKeys(_)
SortKeys(K) ==
  IF K = {} THEN <<>>
  ELSE LET m == CHOOSE m \in K : \A o \in K \ {m} : KeyLess(m, o)
       IN  <<m>> \o SortKeys(K \ {m})

\* a group that is handed the whole batch
GroupOf_all(t, key, numcols) ==
  [ne |-> key[1], date |-> key[2],
   table |-> [cols |-> t.cols, rows |-> t.rows, numcols |-> numcols]]

\* a group is a table of the rows of its key, with the column dtypes of its chunk
GroupOf(t, key, numcols) ==
  LET n == ColIndex(t.cols, S_NE)
      d == Len(t.cols)
  IN  [ne |-> key[1], date |-> key[2],
       table |-> [cols |-> t.cols,
                  rows |-> SelectSeq(t.rows, LAMBDA r : r[n] = key[1] /\ r[d] = key[2]),
                  numcols |-> numcols]]

GroupBy(t, numcols) ==
  LET keys == SortKeys(GroupKeys(t))
  IN  [i \in 1..Len(keys) |-> GroupOf(t, keys[i], numcols)]

\* line 97: read_csv gives a column of a chunk a numeric dtype when every field of it
\* in the chunk is a number or missing, and leaves it as text otherwise; NE is made
\* text (line 117), the time column is made timestamps (line 110)
NumCols(chunk) ==
  LET cols == NormalizeCols(chunk.cols) IN
  {cols[j] : j \in {c \in 1..Len(cols) :
                      /\ c # TimeColIndex(cols)
                      /\ cols[c] # S_NE
                      /\ \A k \in 1..Len(chunk.rows) :
                           IsNa(chunk.rows[k][c]) \/ IsNumeric(chunk.rows[k][c])}}

\* lines 98-129: the groups one chunk yields, in the order they are written; a group
\* has the column dtypes of its chunk
ChunkGroups(chunk) ==
  LET cols == NormalizeCols(chunk.cols)
      tc   == TimeColIndex(cols)
  IN  IF tc = 0 THEN <<>>
      ELSE LET kept == DropNaT(ParseTimes(chunk.rows, tc), tc) IN
           IF kept = <<>> THEN <<>>
           ELSE GroupBy(ReplaceMissing(
                          WithDate(WithNE([cols |-> cols, rows |-> kept]), tc), tc),
                        NumCols(chunk))

(***************************************************************************)
(* make_output_path (pm_ingest.py 75-79) and the partition locator's       *)
(* directory (pm_query.py 27)                                              *)
(***************************************************************************)
S_NEeq == <<"N", "E", "=">>

\* line 76: str(ne).replace('/', '_').replace('\\', '_')
SafeNe(ne) == ReplaceChar(ReplaceChar(ne, "/", "_"), "\\", "_")

\* line 77: the directory name NE=<safe_ne>
PartitionDirName(ne) == S_NEeq \o SafeNe(ne)

(***************************************************************************)
(* Source files.  A CSV file is [header, rows]: the header's labels and    *)
(* the text of every field, row by row.                                    *)
(***************************************************************************)
S_K1 == <<"K", "1">>
S_N1 == <<"N", "1">>
S_AslashB == <<"A", "/", "B">>
S_A_B == <<"A", "_", "B">>
S_OCH == <<"O", "C", "H">>
S_och == <<"o", "c", "h">>
S_7 == <<"7">>

\* 1/1 0.1.5 : slashes and a dotted clock
T_slashdot == <<"1", "/", "1", " ", "0", ".", "1", ".", "5">>
\* 1-1 0:1:5 : the same instant, already clean
T_clean == <<"1", "-", "1", " ", "0", ":", "1", ":", "5">>
\* 1-1 : a date alone
T_date == <<"1", "-", "1">>
\* 1-2 (G) : an annotated date
T_annot == <<"1", "-", "2", " ", "(", "G", ")">>
\* x : not a time
T_bad == <<"x">>

FileA ==
  [header |-> <<S_Time, S_NE, S_TP, S_K1>>,
   rows   |-> << <<T_annot, S_N1, S_och, S_NS>>,
                 <<T_bad, S_N1, S_OCH, S_7>>,
                 <<T_slashdot, S_N1, S_OCH, T_bad>>,
                 <<T_clean, S_N1, S_och, S_7>> >>]

FileB ==
  [header |-> <<<<" ">> \o S_time \o <<" ">>, S_TP>>,
   rows   |-> << <<T_date, S_OCH>> >>]

FileC ==
  [header |-> <<S_NE, S_K1>>,
   rows   |-> << <<S_N1, S_7>> >>]

FileD ==
  [header |-> <<S_Time, S_NE, S_K1>>,
   rows   |-> << <<T_clean, S_AslashB, S_7>>,
                 <<T_date, S_NS, S_7>>,
                 <<T_date, S_A_B, T_bad>> >>]

\* the source directories an invocation may be pointed at: the sorted list of
\* their CSV files (line 87)
SrcDirs == {<<FileA>>, <<FileB>>, <<FileD>>, <<FileC, FileB>>}

\* the --chunksize values
ChunkSizes == {3}

\* the source directories and chunk sizes of the overlapping runs
ConcDirs == {<<FileD>>}

ConcSizes == {3}

\* the CSV files of all source directories
AllFiles == UNION {{d[k] : k \in 1..Len(d)} : d \in SrcDirs \cup ConcDirs}

\* lines 97-129 for every chunk the reader can deliver, worked out once: the chunk
\* after row off of a file, the instants of its time fields and its groups
Batches ==
  [f \in AllFiles |->
     [cs \in ChunkSizes \cup ConcSizes |->
        [off \in 0..(Len(f.rows) - 1) |->
           LET chunk == ReadChunk(f, off, cs) IN
           [cols |-> chunk.cols, rows |-> chunk.rows,
            instants |-> ChunkInstants(chunk), groups |-> ChunkGroups(chunk)]]]]

(***************************************************************************)
(* query_data (pm_query.py 33-125).  An absent optional argument (None)    *)
(* and an empty text are the same to the code's truth tests, so both are   *)
(* the empty sequence.  An outcome is a table [cols, rows] whose first     *)
(* column is the Time index, or an exception.                              *)
(***************************************************************************)
EmptyFrame == [kind |-> "table", cols |-> <<>>, rows |-> <<>>]

Raised(what) == [kind |-> what, cols |-> <<>>, rows |-> <<>>]

Table(cols, rows) == [kind |-> "table", cols |-> cols, rows |-> rows]

\* line 27: Path(root) / f"NE={ne}" : a slash in ne starts a new path component
RECURSIVE SplitSlash(_)
SplitSlash(s) ==
  IF \E i \in 1..Len(s) : s[i] = "/"
  THEN LET i == CHOOSE i \in 1..Len(s) : s[i] = "/" /\ \A k \in 1..(i - 1) : s[k] # "/"
       IN  <<SubSeq(s, 1, i - 1)>> \o SplitSlash(SubSeq(s, i + 1, Len(s)))
  ELSE <<s>>

LocatorBase(ne) == SplitSlash(S_NEeq \o ne)

\* lines 26-31: the files under the element's directory.  Below NE=<x> there are
\* only date=<d> directories, so a base of several components names nothing.
GlobParquet(st, ds, ne) ==
  LET base == LocatorBase(ne) IN
  IF Len(base) = 1 /\ [dir |-> base[1], date |-> 0] \in ds
  THEN {f \in st : f.dir = base[1]}
  ELSE {}

\* the order in which rglob yields the paths is the file system's: by
\* ascending or by descending name
RECURSIVE ByName(_, _)
ByName(F, asc) ==
  IF F = {} THEN <<>>
  ELSE LET m == CHOOSE m \in F : \A o \in F \ {m} :
                  IF asc THEN m.part < o.part ELSE m.part > o.part
       IN  <<m>> \o ByName(F \ {m}, asc)

\* pd.to_numeric(errors='coerce') of one cell: a number, or missing

RECURSIVE DecVal(_)
DecVal(c) == IF c = <<>> THEN 0 ELSE 10 * DecVal(SubSeq(c, 1, Len(c) - 1)) + DigitVal(c[Len(c)])

to_numeric(c) == IF IsNumeric(c) THEN <<"#", DecVal(c)>> ELSE NA

\* lines 88-91 and 120-122: the KPI columns of the result are made numeric
CoerceKpis(cols, rows, kpis) ==
  [i \in 1..Len(rows) |->
     [j \in 1..Len(cols) |->
        IF j > 1 /\ \E k \in 1..Len(kpis) : kpis[k] = cols[j]
        THEN to_numeric(rows[i][j]) ELSE rows[i][j]]]

\* a stable sort by the first column (Time)
RECURSIVE InsertByTime(_, _)
InsertByTime(sorted, r) ==
  IF sorted = <<>> THEN <<r>>
  ELSE IF sorted[Len(sorted)][1] <= r[1] THEN Append(sorted, r)
  ELSE Append(InsertByTime(SubSeq(sorted, 1, Len(sorted) - 1), r), sorted[Len(sorted)])

\* a result left in the order the rows were read
SortByTime_asis(rows) == rows

RECURSIVE SortByTime(_)
SortByTime(rows) ==
  IF rows = <<>> THEN <<>>
  ELSE InsertByTime(SortByTime(SubSeq(rows, 1, Len(rows) - 1)), rows[Len(rows)])

\* DataFrame.head(n) in the place of tail(n)
TailRows_head(rows, n) == SubSeq(rows, 1, n)

\* DataFrame.tail(n): the last n rows; for n < 0 all rows but the first -n
TailRows(rows, n) ==
  IF n >= 0 THEN SubSeq(rows, Len(rows) - n + 1, Len(rows))
  ELSE SubSeq(rows, 1 - n, Len(rows))

RECURSIVE Concat(_)
Concat(ss) == IF ss = <<>> THEN <<>> ELSE Head(ss) \o Concat(Tail(ss))

\* ---- the DuckDB path, lines 56-94 ----

\* DuckDB resolves a column name without regard to case, quoted or not
DuckCol(cols, name) ==
  LET hit(i) == Lower(cols[i]) = Lower(name) IN
  IF \E i \in 1..Len(cols) : hit(i)
  THEN CHOOSE i \in 1..Len(cols) : hit(i) /\ \A k \in 1..(i - 1) : ~hit(k)
  ELSE 0

\* s LIKE p: % is any text, _ is any one character, the rest is itself
RECURSIVE LikeMatch(_, _)
LikeMatch(s, p) ==
  IF p = <<>> THEN s = <<>>
  ELSE IF Head(p) = "%"
       THEN \E k \in 0..Len(s) : LikeMatch(SubSeq(s, k + 1, Len(s)), Tail(p))
  ELSE IF s = <<>> THEN FALSE
  ELSE (Head(p) = "_" \/ Head(p) = Head(s)) /\ LikeMatch(Tail(s), Tail(p))

\* lines 64-72: the WHERE clause on a projected row <<Time, NE, TP, ...>>
DuckKeeps(row, a, ts) ==
  /\ a.start # <<>> => row[1] >= ts[a.start]
  /\ a.end # <<>> => row[1] <= ts[a.end]
  /\ a.tp_contains # <<>> =>
       ~IsNa(row[3]) /\ LikeMatch(row[3], <<"%">> \o a.tp_contains \o <<"%">>)

DuckProject(seg, cols) ==
  [i \in 1..Len(seg.rows) |-> [j \in 1..Len(cols) |-> seg.rows[i][DuckCol(seg.cols, cols[j])]]]

\* line 79: the scan gives every selected column the type it has in the first file and
\* casts the other files to it; a text that is no number cannot be cast to a number
DuckCastFails(segs, cols) ==
  \E j \in 1..Len(cols) : \E k \in 2..Len(segs) :
    LET c1 == DuckCol(segs[1].cols, cols[j])
        ck == DuckCol(segs[k].cols, cols[j]) IN
    /\ segs[1].cols[c1] \in segs[1].numcols
    /\ segs[k].cols[ck] \notin segs[k].numcols
    /\ \E i \in 1..Len(segs[k].rows) :
         ~IsNa(segs[k].rows[i][ck]) /\ ~IsNumeric(segs[k].rows[i][ck])

DuckQuery(segs, a, ts) ==
  LET cols == <<S_Time, S_NE, S_TP>> \o a.kpis IN
  \* line 66, 68: pd.to_datetime of a text that is no time raises
  IF \/ a.start # <<>> /\ ts[a.start] = NaT
     \/ a.end # <<>> /\ ts[a.end] = NaT
  THEN Raised("error")
  \* line 70: the text is pasted between quotes
  ELSE IF \E i \in 1..Len(a.tp_contains) : a.tp_contains[i] = "'"
  THEN Raised("error")
  \* line 79: a file that is no complete parquet file, or a selected column
  \* that a file does not have, fails the scan
  ELSE IF \E k \in 1..Len(segs) :
            \/ ~segs[k].complete
            \/ \E j \in 1..Len(cols) : DuckCol(segs[k].cols, cols[j]) = 0
  THEN Raised("error")
  ELSE IF DuckCastFails(segs, cols)
  THEN Raised("error")
  ELSE LET all  == Concat([k \in 1..Len(segs) |-> DuckProject(segs[k], cols)])
           kept == SortByTime(SelectSeq(all, LAMBDA r : DuckKeeps(r, a, ts)))
       IN  IF kept = <<>> THEN EmptyFrame
           ELSE LET num == CoerceKpis(cols, kept, a.kpis) IN
                Table(cols,
                      IF a.max_rows > 0 /\ Len(num) > a.max_rows
                      THEN TailRows(num, a.max_rows) ELSE num)

\* ---- the pandas path, lines 97-125 ----

\* Series.astype(str) of a value read back from parquet: None for a missing one
S_None == <<"N", "o", "n", "e">>

ReadBackStr(c) == IF IsNa(c) THEN S_None ELSE c

\* Series.str.contains(pat, case=False): pat is a regular expression; of its
\* operators the dot (any one character) is modelled
RegexContains(s, pat) ==
  \E i \in 0..(Len(s) - Len(pat)) :
     \A k \in 1..Len(pat) : pat[k] = "." \/ LowerChar(pat[k]) = LowerChar(s[i + k])

\* line 102
Want(seg, cols) == SelectSeq(cols, LAMBDA c : HasCol(seg.cols, c))

\* lines 100-116: what one file contributes: a frame, or nothing when any step
\* raises (the except clause of line 115)
FrameOk(seg, cols, a, ts) ==
  /\ seg.complete
  /\ HasCol(seg.cols, S_Time)
  /\ a.tp_contains # <<>> => HasCol(seg.cols, S_TP)
  /\ a.start # <<>> => ts[a.start] # NaT
  /\ a.end # <<>> => ts[a.end] # NaT

PandasKeeps(row, want, a, ts) ==
  /\ a.tp_contains # <<>> =>
       RegexContains(ReadBackStr(row[ColIndex(want, S_TP)]), a.tp_contains)
  /\ a.start # <<>> => row[1] >= ts[a.start]
  /\ a.end # <<>> => row[1] <= ts[a.end]

Frame(seg, cols, a, ts) ==
  LET want == Want(seg, cols)
      proj == [i \in 1..Len(seg.rows) |->
                 [j \in 1..Len(want) |-> seg.rows[i][ColIndex(seg.cols, want[j])]]]
  IN  [cols |-> want, rows |-> SelectSeq(proj, LAMBDA r : PandasKeeps(r, want, a, ts))]

\* pd.concat: the columns in order of first appearance
RECURSIVE UnionCols(_)
UnionCols(frames) ==
  IF frames = <<>> THEN <<>>
  ELSE LET before == UnionCols(SubSeq(frames, 1, Len(frames) - 1))
           f == frames[Len(frames)]
       IN  before \o SelectSeq(f.cols, LAMBDA c : ~HasCol(before, c))

\* pd.concat: the rows one after another, a column a frame lacks is missing
Reindex(f, cols) ==
  [i \in 1..Len(f.rows) |->
     [j \in 1..Len(cols) |->
        IF HasCol(f.cols, cols[j]) THEN f.rows[i][ColIndex(f.cols, cols[j])] ELSE NA]]

PandasQuery(segs, a, ts) ==
  LET cols   == <<S_Time, S_NE, S_TP>> \o a.kpis
      ok     == SelectSeq(segs, LAMBDA g : FrameOk(g, cols, a, ts))
      frames == [k \in 1..Len(ok) |-> Frame(ok[k], cols, a, ts)]
  IN  IF frames = <<>> THEN EmptyFrame
      ELSE LET ucols    == UnionCols(frames)
               combined == SortByTime(Concat([k \in 1..Len(frames) |->
                                                Reindex(frames[k], ucols)]))
               num      == CoerceKpis(ucols, combined, a.kpis)
           IN  Table(ucols,
                     IF a.max_rows # 0 /\ Len(num) > a.max_rows
                     THEN TailRows(num, a.max_rows) ELSE num)

\* the orders in which the located paths can come: one when there are fewer than two
PathOrders(st, ds, a) ==
  IF Cardinality(GlobParquet(st, ds, a.ne)) < 2 THEN {TRUE} ELSE BOOLEAN

\* lines 66, 68, 111, 113: pd.to_datetime(start), pd.to_datetime(end)
Bounds(a) == [t \in {a.start, a.end} |-> to_datetime(t)]

\* a validation that forgets the KPI list
ArgsValid_neOnly(a) == a.ne_given

\* lines 44-48
ArgsValid(a) == a.ne_given /\ a.kpis_given /\ Len(a.kpis) # 0

query_data(st, ds, duck, asc, a) ==
  \* lines 44-48
  IF ~ArgsValid(a) THEN Raised("ValueError")
  ELSE LET paths == ByName(GlobParquet(st, ds, a.ne), asc) IN
       IF paths = <<>> THEN EmptyFrame
       ELSE IF duck THEN DuckQuery(paths, a, Bounds(a)) ELSE PandasQuery(paths, a, Bounds(a))

(***************************************************************************)
(* The calls of query_data that are made                                   *)
(***************************************************************************)
S_K2 == <<"K", "2">>
S_N2 == <<"N", "2">>
T_next == <<"1", "-", "2">>

\* element identifiers asked for: stored ones, and N2, which is never stored
NeArgs == {S_N1, S_AslashB, S_A_B, S_UNKNOWN_NE, S_N2}

\* <<start, end, tp_contains>>: no filter, each alone, start <= end, start > end,
\* all three
FilterArgs ==
  { <<<<>>, <<>>, <<>>>>,
    <<T_clean, <<>>, <<>>>>,
    <<<<>>, T_date, <<>>>>,
    <<<<>>, <<>>, S_och>>,
    <<<<>>, <<>>, T_bad>>,
    <<T_clean, T_next, <<>>>>,
    <<T_clean, T_date, <<>>>>,
    <<T_clean, T_next, S_och>> }

\* max_rows values besides 0
MaxRowsArgs == {-1, 1, 2}

Args(neg, ne, kg, kpis, f, m) ==
  [ne_given |-> neg, ne |-> ne, kpis_given |-> kg, kpis |-> kpis,
   start |-> f[1], end |-> f[2], tp_contains |-> f[3], max_rows |-> m]

\* the filters that are combined with a row cutoff
CutFilterArgs ==
  { <<<<>>, <<>>, <<>>>>, <<<<>>, T_date, <<>>>>, <<T_clean, T_next, S_och>> }

ValidArgs ==
  {Args(TRUE, ne, TRUE, <<S_K1>>, f, 0) : ne \in NeArgs, f \in FilterArgs}
    \cup {Args(TRUE, ne, TRUE, <<S_K1>>, f, m) :
            ne \in NeArgs, f \in CutFilterArgs, m \in MaxRowsArgs}
    \cup {Args(TRUE, ne, TRUE, <<S_K2>>, <<<<>>, <<>>, <<>>>>, 0) : ne \in NeArgs}

\* ne=None, kpis=None, kpis=[] with the other arguments as in any call
InvalidArgs ==
  {Args(g[1], S_N1, g[2], g[3], f, 0) :
     g \in {<<FALSE, TRUE, <<S_K1>>>>, <<TRUE, FALSE, <<>>>>, <<TRUE, TRUE, <<>>>>,
            <<FALSE, FALSE, <<>>>>},
     f \in CutFilterArgs}

NoArgs == Args(FALSE, <<>>, FALSE, <<>>, <<<<>>, <<>>, <<>>>>, 0)

NoQuery == [active |-> FALSE, duck |-> FALSE, asc |-> FALSE, args |-> NoArgs,
            out |-> Raised("none")]

(***************************************************************************)
(* The calls of clean_time that are made                                   *)
(***************************************************************************)
\* 10.06.2025 00.15.30 : a dotted date and a dotted clock of two-digit fields
T_dotted ==
  <<"1", "0", ".", "0", "6", ".", "2", "0", "2", "5", " ",
    "0", "0", ".", "1", "5", ".", "3", "0">>

\* not-a-time
T_notatime == <<"n", "o", "t", "-", "a", "-", "t", "i", "m", "e">>

\* 1.2.3.4.5: dotted digits whose triples overlap
T_overlap == <<"1", ".", "2", ".", "3", ".", "4", ".", "5">>

\* the characters of the generated time texts
TimeChars == {"1", ".", " "}

\* the generated time texts are of at most this many characters
MaxTimeLen == 5

\* the time texts clean_time is applied to: the texts of the source files, the two of
\* the scenario, the overlapping one, and every text of at most MaxTimeLen characters of TimeChars
TimeTexts ==
  {T_slashdot, T_clean, T_date, T_annot, T_bad, T_dotted, T_notatime, T_overlap}
    \cup UNION {[1..n -> TimeChars] : n \in 0..MaxTimeLen}

NoClean == [given |-> <<>>, cleaned |-> <<>>, instant |-> 0]

(***************************************************************************)
(* The values that the tp_contains filter is applied to                    *)
(***************************************************************************)
S_o_h == <<"o", "_", "h">>

S_odoth == <<"o", ".", "h">>

S_pct == <<"5", "%">>

\* TP values of stored rows
TpTexts == {S_och, S_OCH, S_o_h, S_odoth, S_pct, S_7}

\* the characters of the generated tp_contains arguments
TpChars == {"c", "_", ".", "%"}

\* the generated tp_contains arguments are of at most this many characters
MaxPatLen == 2

\* the tp_contains arguments: those of the queries and every text of 1 to MaxPatLen
\* characters of TpChars
TpPatterns ==
  {S_och, S_o_h, S_odoth} \cup UNION {[1..n -> TpChars] : n \in 1..MaxPatLen}

NoFilterCall == [tp |-> <<>>, pat |-> <<>>, duck |-> FALSE, kept |-> FALSE]

(***************************************************************************)
(* Bounds                                                                  *)
(***************************************************************************)
\* concurrent invocations of ingest_folder on one output root
NumInv == 2
\* runs of ingest_folder started in all
MaxRuns == 1
\* injected failures (read, mkdir, write) in all
MaxFaults == 1

Invs == 1..NumInv

(***************************************************************************)
(* State                                                                   *)
(***************************************************************************)
VARIABLES
  store,     \* the files under the output root: [dir, date, part, complete, cols, rows,
             \* numcols (the columns of numeric type)]
  dirs,      \* the directories under the output root: [dir, date], date 0 = the NE level
  inv,       \* per invocation of ingest_folder: its locals and position
  nextUuid,  \* uuid4: the next fresh name
  runs,      \* runs started
  faults,    \* failures injected
  read,      \* history: the chunks read_csv has delivered so far, in order, each with
             \* the instants that lines 109-110 make of its time fields
  q,         \* the query_data call in progress: its arguments and its outcome
  ct,        \* the clean_time call last made: its argument and what came of it
  tf         \* the tp_contains filter last applied: the TP value, the argument, the
             \* path and whether the row was kept

vars == <<store, dirs, inv, nextUuid, runs, faults, read, q, ct, tf>>

NoDest == [dir |-> <<>>, date |-> 0, part |-> 0]

IdleInv ==
  [pc |-> "idle", src |-> <<>>, chunksize |-> 0, fi |-> 0, off |-> 0,
   pending |-> <<>>, dest |-> NoDest, found |-> 0, processed |-> 0]

Init ==
  /\ store = {}
  /\ dirs = {}
  /\ inv = [i \in Invs |-> IdleInv]
  /\ nextUuid = 1
  /\ runs = 0
  /\ faults = 0
  /\ read = <<>>
  /\ q = NoQuery
  /\ ct = NoClean
  /\ tf = NoFilterCall

\* what a write leaves at dest: the file replaces whatever was at that path
PutFile(st, dest, complete, table) ==
  {f \in st : ~(f.dir = dest.dir /\ f.date = dest.date /\ f.part = dest.part)}
    \cup {[dir |-> dest.dir, date |-> dest.date, part |-> dest.part,
           complete |-> complete, cols |-> table.cols, rows |-> table.rows,
           numcols |-> table.numcols]}

\* a file that was opened for writing and not finished: no readable content
Truncated == [cols |-> <<>>, rows |-> <<>>, numcols |-> {}]

\* a part name that does not vary
PartName_fixed(u) == 1

\* line 133: part-<uuid4>.parquet; uuid4 is taken to yield a name never used before
PartName(u) == u

CurFile(r) == r.src[r.fi]

(***************************************************************************)
(* ingest_folder (pm_ingest.py 81-156)                                     *)
(***************************************************************************)
\* lines 82-92: list the CSV files, processed_files = 0
StartFrom(i, Dirs, Sizes) ==
  /\ inv[i].pc = "idle"
  /\ ~q.active
  /\ \E src \in Dirs, cs \in Sizes :
       inv' = [inv EXCEPT ![i] =
                 [IdleInv EXCEPT !.pc = "chunk", !.src = src, !.chunksize = cs,
                                 !.fi = 1, !.found = Len(src)]]
  /\ runs' = runs + 1
  /\ UNCHANGED <<tf, ct, store, dirs, nextUuid, faults, read, q>>

\* one run after another, over any of the source directories
Start(i) == runs < MaxRuns /\ StartFrom(i, SrcDirs, ChunkSizes)

\* runs that overlap in time on one output root
StartConc(i) == runs < NumInv /\ StartFrom(i, ConcDirs, ConcSizes)

\* line 97: the reader delivers the next chunk; lines 98-129 turn it into groups
ReadNext(i) ==
  LET r == inv[i] IN
  /\ r.pc = "chunk"
  /\ r.fi <= Len(r.src)
  /\ r.off < Len(CurFile(r).rows)
  /\ LET b == Batches[CurFile(r)][r.chunksize][r.off]
     IN  /\ inv' = [inv EXCEPT ![i].off = r.off + Len(b.rows),
                               ![i].pending = b.groups,
                               ![i].pc = "group"]
         /\ read' = Append(read, [cols |-> b.cols, rows |-> b.rows,
                                  instants |-> b.instants])
  /\ UNCHANGED <<tf, ct, store, dirs, nextUuid, runs, faults, q>>

\* line 149: the file is exhausted, processed_files += 1
EndFile(i) ==
  LET r == inv[i] IN
  /\ r.pc = "chunk"
  /\ r.fi <= Len(r.src)
  /\ r.off >= Len(CurFile(r).rows)
  /\ inv' = [inv EXCEPT ![i].fi = r.fi + 1, ![i].off = 0,
                        ![i].processed = r.processed + 1]
  /\ UNCHANGED <<tf, ct, store, dirs, nextUuid, runs, faults, read, q>>

\* a read failure that ends the whole run
ReadFail_endsRun(i) ==
  LET r == inv[i] IN
  /\ r.pc = "chunk"
  /\ r.fi <= Len(r.src)
  /\ faults < MaxFaults
  /\ inv' = [inv EXCEPT ![i].fi = Len(r.src) + 1, ![i].off = 0]
  /\ faults' = faults + 1
  /\ UNCHANGED <<tf, ct, store, dirs, nextUuid, runs, read, q>>

\* lines 150-152: read_csv raises; the file is skipped
ReadFail(i) ==
  LET r == inv[i] IN
  /\ r.pc = "chunk"
  /\ r.fi <= Len(r.src)
  /\ faults < MaxFaults
  /\ inv' = [inv EXCEPT ![i].fi = r.fi + 1, ![i].off = 0]
  /\ faults' = faults + 1
  /\ UNCHANGED <<tf, ct, store, dirs, nextUuid, runs, read, q>>

\* lines 154-156: the summary; the invocation returns
Finish(i) ==
  LET r == inv[i] IN
  /\ r.pc = "chunk"
  /\ r.fi > Len(r.src)
  /\ inv' = [inv EXCEPT ![i] = [IdleInv EXCEPT !.found = r.found,
                                               !.processed = r.processed]]
  /\ UNCHANGED <<tf, ct, store, dirs, nextUuid, runs, faults, read, q>>

\* line 129: no group is left, back to the reader
EndGroups(i) ==
  LET r == inv[i] IN
  /\ r.pc = "group"
  /\ r.pending = <<>>
  /\ inv' = [inv EXCEPT ![i].pc = "chunk"]
  /\ UNCHANGED <<tf, ct, store, dirs, nextUuid, runs, faults, read, q>>

\* lines 132-134: make_output_path creates the partition directory, dest is named
BeginGroup(i) ==
  LET r == inv[i] IN
  /\ r.pc = "group"
  /\ r.pending # <<>>
  /\ LET g == Head(r.pending)
         d == PartitionDirName(g.ne)
     IN  /\ dirs' = dirs \cup {[dir |-> d, date |-> 0], [dir |-> d, date |-> g.date]}
         /\ inv' = [inv EXCEPT ![i].dest = [dir |-> d, date |-> g.date,
                                            part |-> PartName(nextUuid)],
                               ![i].pc = "write1"]
  /\ nextUuid' = nextUuid + 1
  /\ UNCHANGED <<tf, ct, store, runs, faults, read, q>>

\* line 78 raises (outside the inner try): lines 150-152 skip the rest of the file
MkdirFail(i) ==
  LET r == inv[i] IN
  /\ r.pc = "group"
  /\ r.pending # <<>>
  /\ faults < MaxFaults
  /\ inv' = [inv EXCEPT ![i].pc = "chunk", ![i].pending = <<>>,
                        ![i].fi = r.fi + 1, ![i].off = 0]
  /\ faults' = faults + 1
  /\ UNCHANGED <<tf, ct, store, dirs, nextUuid, runs, read, q>>

\* line 137: to_parquet(engine=pyarrow) fails before dest is opened (conversion)
Convert1Fail(i) ==
  /\ inv[i].pc = "write1"
  /\ faults < MaxFaults
  /\ inv' = [inv EXCEPT ![i].pc = "write2"]
  /\ faults' = faults + 1
  /\ UNCHANGED <<tf, ct, store, dirs, nextUuid, runs, read, q>>

\* line 137: to_parquet opens dest for writing
Open1(i) ==
  /\ inv[i].pc = "write1"
  /\ store' = PutFile(store, inv[i].dest, FALSE, Truncated)
  /\ inv' = [inv EXCEPT ![i].pc = "writing1"]
  /\ UNCHANGED <<tf, ct, dirs, nextUuid, runs, faults, read, q>>

\* line 137 returns: the segment is written
Finish1(i) ==
  LET r == inv[i] IN
  /\ r.pc = "writing1"
  /\ store' = PutFile(store, r.dest, TRUE, Head(r.pending).table)
  /\ inv' = [inv EXCEPT ![i].pc = "group", ![i].pending = Tail(r.pending),
                        ![i].dest = NoDest]
  /\ UNCHANGED <<tf, ct, dirs, nextUuid, runs, faults, read, q>>

\* line 137 raises while writing: lines 140-141, the unfinished file stays
Fail1(i) ==
  /\ inv[i].pc = "writing1"
  /\ faults < MaxFaults
  /\ inv' = [inv EXCEPT ![i].pc = "write2"]
  /\ faults' = faults + 1
  /\ UNCHANGED <<tf, ct, store, dirs, nextUuid, runs, read, q>>

\* line 144: to_parquet(engine=fastparquet) fails before dest is opened
\* (the engine is not installed, conversion): lines 145-147
Convert2Fail(i) ==
  LET r == inv[i] IN
  /\ r.pc = "write2"
  /\ inv' = [inv EXCEPT ![i].pc = "group", ![i].pending = Tail(r.pending),
                        ![i].dest = NoDest]
  /\ UNCHANGED <<tf, ct, store, dirs, nextUuid, runs, faults, read, q>>

\* line 144: the retry opens dest for writing
Open2(i) ==
  /\ inv[i].pc = "write2"
  /\ store' = PutFile(store, inv[i].dest, FALSE, Truncated)
  /\ inv' = [inv EXCEPT ![i].pc = "writing2"]
  /\ UNCHANGED <<tf, ct, dirs, nextUuid, runs, faults, read, q>>

\* line 144 returns: the segment is written by the retry
Finish2(i) ==
  LET r == inv[i] IN
  /\ r.pc = "writing2"
  /\ store' = PutFile(store, r.dest, TRUE, Head(r.pending).table)
  /\ inv' = [inv EXCEPT ![i].pc = "group", ![i].pending = Tail(r.pending),
                        ![i].dest = NoDest]
  /\ UNCHANGED <<tf, ct, dirs, nextUuid, runs, faults, read, q>>

\* line 144 raises while writing: lines 145-147, the unfinished file stays
Fail2(i) ==
  LET r == inv[i] IN
  /\ r.pc = "writing2"
  /\ inv' = [inv EXCEPT ![i].pc = "group", ![i].pending = Tail(r.pending),
                        ![i].dest = NoDest]
  /\ UNCHANGED <<tf, ct, store, dirs, nextUuid, runs, faults, read, q>>

\* the steps of a started run
Step(i) ==
  \/ ReadNext(i) \/ EndFile(i) \/ ReadFail(i) \/ Finish(i)
  \/ EndGroups(i) \/ BeginGroup(i) \/ MkdirFail(i)
  \/ Convert1Fail(i) \/ Open1(i) \/ Finish1(i) \/ Fail1(i)
  \/ Convert2Fail(i) \/ Open2(i) \/ Finish2(i) \/ Fail2(i)

(***************************************************************************)
(* A call of query_data on the store, by a process in which duckdb can     *)
(* (duck) or cannot be imported (pm_query.py 20-24)                        *)
(***************************************************************************)
Query ==
  /\ ~q.active
  /\ \A i \in Invs : inv[i].pc = "idle"
  /\ \E a \in ValidArgs \cup InvalidArgs, duck \in BOOLEAN :
     \E asc \in PathOrders(store, dirs, a) :
       q' = [active |-> TRUE, duck |-> duck, asc |-> asc, args |-> a,
             out |-> query_data(store, dirs, duck, asc, a)]
  /\ UNCHANGED <<tf, ct, store, dirs, inv, nextUuid, runs, faults, read>>

\* the caller has its result
Return ==
  /\ q.active
  /\ q' = NoQuery
  /\ UNCHANGED <<tf, ct, store, dirs, inv, nextUuid, runs, faults, read>>

\* runs one after another, and queries between them
Next == Start(1) \/ Step(1) \/ Query \/ Return

Spec == Init /\ [][Next]_vars

\* ingest_folder alone, which goes on as long as it has a step to take
NextIngest == Start(1) \/ Step(1)

SpecIngest == Init /\ [][NextIngest]_vars /\ WF_vars(Step(1))

\* lines 109-110 for one time field: clean_time, then pd.to_datetime
CleanTime ==
  /\ \E t \in TimeTexts :
       ct' = [given |-> t, cleaned |-> clean_time(t), instant |-> to_datetime(clean_time(t))]
  /\ UNCHANGED <<tf, store, dirs, inv, nextUuid, runs, faults, read, q>>

\* clean_time on its own, over the time texts
NextClean == CleanTime

\* the tp_contains test of query_data on one row: line 70 on the DuckDB path,
\* line 109 on the pandas path
TpFilter ==
  /\ \E tp \in TpTexts, pat \in TpPatterns, duck \in BOOLEAN :
       LET a    == [NoArgs EXCEPT !.tp_contains = pat]
           want == <<S_Time, S_NE, S_TP>>
           row  == <<0, S_N1, tp>>
       IN  tf' = [tp |-> tp, pat |-> pat, duck |-> duck,
                  kept |-> IF duck THEN DuckKeeps(row, a, <<>>)
                           ELSE PandasKeeps(row, want, a, <<>>)]
  /\ UNCHANGED <<ct, store, dirs, inv, nextUuid, runs, faults, read, q>>

NextFilter == TpFilter

SpecFilter == Init /\ [][NextFilter]_vars

SpecClean == Init /\ [][NextClean]_vars

\* runs that overlap
NextConc == \E i \in Invs : StartConc(i) \/ Step(i)

SpecConc == Init /\ [][NextConc]_vars

(***************************************************************************)
(* Properties                                                              *)
(***************************************************************************)
\* the time fields of the rows of one chunk, as read
ChunkTimes(ch) ==
  LET tc == TimeColIndex(NormalizeCols(ch.cols)) IN
  IF tc = 0 THEN <<>> ELSE [k \in 1..Len(ch.rows) |-> ch.rows[k][tc]]

\* the time fields of all rows read so far, in order
TimesRead == Concat([n \in 1..Len(read) |-> ChunkTimes(read[n])])

\* the instants the rows read so far stand for; NaT where the text does not parse
InstantsRead == Concat([n \in 1..Len(read) |-> read[n].instants])

RECURSIVE RowsIn(_)
RowsIn(F) ==
  IF F = {} THEN 0
  ELSE LET f == CHOOSE f \in F : TRUE IN Len(f.rows) + RowsIn(F \ {f})

\* C1: every row of every segment has a parsed timestamp, which is the parse of the
\* cleaned time of a row that was read, and the rows whose cleaned time does not
\* parse are not stored: no more rows are stored than were read with a time that parses
C1_StoredTimesParsed ==
  LET parsed == {InstantsRead[n] : n \in 1..Len(InstantsRead)} \ {NaT}
      kept   == Cardinality({n \in 1..Len(InstantsRead) : InstantsRead[n] # NaT}) IN
  /\ \A f \in store :
       f.complete =>
         LET tc == TimeColIndex(f.cols) IN
         /\ tc # 0
         /\ \A k \in 1..Len(f.rows) : f.rows[k][tc] # NaT /\ f.rows[k][tc] \in parsed
  /\ RowsIn(store) <= kept

\* a finished run that read a row whose time does not parse and a row whose time
\* needed cleaning, and stored a segment
C1_Witness ==
  /\ inv[1].pc = "idle"
  /\ \E n \in 1..Len(InstantsRead) : InstantsRead[n] = NaT
  /\ \E n \in 1..Len(TimesRead) :
       /\ InstantsRead[n] # NaT
       /\ clean_time(TimesRead[n]) # TimesRead[n]
       /\ \E f \in store : f.complete /\ \E k \in 1..Len(f.rows) :
            f.rows[k][TimeColIndex(f.cols)] = InstantsRead[n]

SamePath(a, b) == a.dir = b.dir /\ a.date = b.date /\ a.part = b.part

\* C2: the store is append-only under overlapping and repeated runs: a written segment
\* is still there, unchanged, after every step, and a write is never given the path
\* of an existing file or of another write in progress
C2_AppendOnly ==
  [][ /\ \A f \in store : f.complete => f \in store'
      /\ \A i \in Invs :
           (inv[i].dest = NoDest /\ inv'[i].dest # NoDest) =>
             /\ \A f \in store : ~SamePath(f, inv'[i].dest)
             /\ \A j \in Invs \ {i} : inv[j].dest # inv'[i].dest ]_vars

\* two runs at work at once, the same rows already stored twice in one partition
C2_Witness ==
  /\ \A i \in Invs : inv[i].pc # "idle"
  /\ \E f, g \in store :
       /\ f # g /\ f.complete /\ g.complete
       /\ f.dir = g.dir /\ f.date = g.date /\ f.rows = g.rows

\* the segments query_data looks at for the queried element
Located == GlobParquet(store, dirs, q.args.ne)

NoFilter(a) == a.start = <<>> /\ a.end = <<>> /\ a.tp_contains = <<>>

\* the rows of a chunk, as read, that name the element ne and whose time parses
InputCount(ch, ne) ==
  LET cols == NormalizeCols(ch.cols)
      tc   == TimeColIndex(cols)
      nc   == ColIndex(cols, S_NE) IN
  IF tc = 0 THEN 0
  ELSE Cardinality({k \in 1..Len(ch.rows) :
         /\ (IF nc = 0 THEN S_UNKNOWN_NE ELSE ch.rows[k][nc]) = ne
         /\ ch.instants[k] # NaT})

\* C3: after one batch, read and written without failure, a query for one of its
\* elements with a KPI column of the batch, no filter and max_rows = 0 returns as many
\* rows as the batch has rows of that element with a time that parses
C3_RoundTripCount ==
  ( /\ q.active /\ Len(read) = 1 /\ faults = 0
    /\ q.args.ne_given /\ q.args.kpis_given /\ Len(q.args.kpis) > 0
    /\ NoFilter(q.args) /\ q.args.max_rows = 0
    /\ \A j \in 1..Len(q.args.kpis) : HasCol(NormalizeCols(read[1].cols), q.args.kpis[j]) )
  => ( /\ q.out.kind = "table"
       /\ Len(q.out.rows) = InputCount(read[1], q.args.ne) )

\* C4: query_data raises ValueError exactly when ne is missing or kpis is missing or
\* empty, whatever the store holds, and then returns no result
C4_Validation ==
  q.active =>
    /\ (q.out.kind = "ValueError") <=>
         (~q.args.ne_given \/ ~q.args.kpis_given \/ Len(q.args.kpis) = 0)
    /\ q.out.kind = "ValueError" => q.out.cols = <<>> /\ q.out.rows = <<>>

\* a call without KPIs for an element that has written segments
C4_Witness ==
  /\ q.active /\ q.args.ne_given /\ Len(q.args.kpis) = 0
  /\ q.out.kind = "ValueError"
  /\ \E f \in Located : f.complete /\ Len(f.rows) > 0

\* row k of segment f satisfies the filters of a; ci: the substring test ignores case
RowPasses(f, k, a, ts, ci) ==
  LET tc == TimeColIndex(f.cols)
      tp == ColIndex(f.cols, S_TP) IN
  /\ tc # 0
  /\ a.start # <<>> => f.rows[k][tc] >= ts[a.start]
  /\ a.end # <<>> => f.rows[k][tc] <= ts[a.end]
  /\ a.tp_contains # <<>> =>
       /\ tp # 0
       /\ ~IsNa(f.rows[k][tp])
       /\ IF ci THEN Contains(Lower(f.rows[k][tp]), Lower(a.tp_contains))
                ELSE Contains(f.rows[k][tp], a.tp_contains)

\* C5: a valid query that no row of the element's (completely written) segments
\* satisfies returns an empty table on either path, and does not raise
C5_EmptyNoError ==
  ( /\ q.active /\ q.args.ne_given /\ q.args.kpis_given /\ Len(q.args.kpis) > 0
    /\ \A f \in Located :
         /\ f.complete
         /\ \A k \in 1..Len(f.rows) : ~RowPasses(f, k, q.args, Bounds(q.args), TRUE) )
  => (q.out.kind = "table" /\ q.out.rows = <<>>)

\* the stored rows of the element that satisfy the filters, as (time, element) pairs
Qualifying(a, ci) ==
  LET fs == ByName(Located, TRUE)
      ts == Bounds(a)
      of(f) == LET tc == TimeColIndex(f.cols)
                   nc == ColIndex(f.cols, S_NE)
                   ks == SelectSeq([k \in 1..Len(f.rows) |-> k],
                                   LAMBDA k : RowPasses(f, k, a, ts, ci)) IN
               [n \in 1..Len(ks) |-> <<f.rows[ks[n]][tc], f.rows[ks[n]][nc]>>] IN
  Concat([n \in 1..Len(fs) |-> of(fs[n])])

Count(x, sq) == Cardinality({n \in 1..Len(sq) : sq[n] = x})

SameBag(s1, s2) ==
  /\ Len(s1) = Len(s2)
  /\ \A n \in 1..Len(s1) : Count(s1[n], s1) = Count(s1[n], s2)

\* C6: with max_rows = 0 the result holds exactly the stored rows of the element for
\* which start <= Time <= end and TP contains tp_contains (each path tested with its
\* own treatment of letter case): none is missing and none is extra
C6_ExactFilter ==
  (q.active /\ q.out.kind = "table" /\ q.args.max_rows = 0)
  => SameBag([n \in 1..Len(q.out.rows) |-> <<q.out.rows[n][1], q.out.rows[n][2]>>],
             Qualifying(q.args, ~q.duck))

NonDecreasing(rows) == \A n \in 1..(Len(rows) - 1) : rows[n][1] <= rows[n + 1][1]

\* C7: the rows of every result, of either path, are in non-decreasing order of time
C7_SortedByTime ==
  (q.active /\ q.out.kind = "table") => NonDecreasing(q.out.rows)

\* a result of rows with different times, drawn from several segments that are not
\* read in the order of their times
C7_Witness ==
  /\ q.active /\ q.out.kind = "table" /\ Len(q.out.rows) >= 2
  /\ q.out.rows[1][1] < q.out.rows[Len(q.out.rows)][1]
  /\ \A f \in Located : f.complete /\ Len(f.rows) > 0
  /\ LET fs == ByName(Located, q.asc) IN
     \E n \in 1..(Len(fs) - 1) :
       fs[n].rows[1][TimeColIndex(fs[n].cols)] > fs[n + 1].rows[1][TimeColIndex(fs[n + 1].cols)]

\* the same query without a row cutoff
Uncut == query_data(store, dirs, q.duck, q.asc, [q.args EXCEPT !.max_rows = 0])

\* rows is what is left of full when its earliest rows are taken away
LatestOf(rows, full) ==
  /\ \A n \in 1..Len(rows) : Count(rows[n], rows) <= Count(rows[n], full)
  /\ \A m \in 1..Len(full) :
       Count(full[m], rows) < Count(full[m], full) =>
         \A n \in 1..Len(rows) : full[m][1] <= rows[n][1]

\* C8: with max_rows = N > 0 and M rows satisfying the filters, the result has
\* min(N, M) rows, they are rows of the uncut result, and no row left out is later
\* than a returned row
C8_LatestRows ==
  (q.active /\ q.out.kind = "table" /\ q.args.max_rows > 0) =>
    LET full == Uncut
        N    == q.args.max_rows IN
    /\ full.kind = "table"
    /\ Len(q.out.rows) = IF N < Len(full.rows) THEN N ELSE Len(full.rows)
    /\ LatestOf(q.out.rows, full.rows)

\* a cutoff that takes away earlier rows
C8_Witness ==
  /\ q.active /\ q.out.kind = "table" /\ q.args.max_rows = 1
  /\ Len(q.out.rows) = 1
  /\ Len(Uncut.rows) >= 2
  /\ Uncut.rows[1][1] < q.out.rows[1][1]

\* C9: asking for a KPI that the stored rows do not have as a column raises nothing
\* on either path: the result is a table
C9_MissingKpiNoError ==
  ( /\ q.active /\ q.args.ne_given /\ q.args.kpis_given /\ Len(q.args.kpis) > 0
    /\ Located # {}
    /\ \A f \in Located : f.complete /\ HasCol(f.cols, S_Time) /\ HasCol(f.cols, S_TP)
    /\ \E f \in Located, j \in 1..Len(q.args.kpis) : ~HasCol(f.cols, q.args.kpis[j]) )
  => q.out.kind = "table"

\* the same call on the other path
OtherPath == query_data(store, dirs, ~q.duck, q.asc, q.args)

\* two outcomes are the same error, or both are tables without rows, or they are
\* tables of the same columns and, row by row, the same values
Equivalent(x, y) ==
  /\ x.kind = y.kind
  /\ Len(x.rows) = Len(y.rows)
  /\ x.rows # <<>> => {x.cols[j] : j \in 1..Len(x.cols)} = {y.cols[j] : j \in 1..Len(y.cols)}
  /\ \A n \in 1..Len(x.rows) : \A j \in 1..Len(x.cols) :
       x.rows[n][j] = y.rows[n][ColIndex(y.cols, x.cols[j])]

\* C10: on the same store and the same valid arguments (max_rows not negative; the
\* segments completely written, with the Time, TP and KPI columns asked for) the
\* DuckDB path and the pandas path give the same outcome
C10_PathsEquivalent ==
  ( /\ q.active /\ q.args.ne_given /\ q.args.kpis_given /\ Len(q.args.kpis) > 0
    /\ q.args.max_rows >= 0
    /\ \A f \in Located :
         /\ f.complete /\ HasCol(f.cols, S_Time) /\ HasCol(f.cols, S_TP)
         /\ \A j \in 1..Len(q.args.kpis) : HasCol(f.cols, q.args.kpis[j]) )
  => Equivalent(q.out, OtherPath)

\* the element identifier and the time of row k of segment f
RowNe(f, k) == f.rows[k][ColIndex(f.cols, S_NE)]

RowTime(f, k) == f.rows[k][TimeColIndex(f.cols)]

\* C11: every row of every segment under NE=<X>/date=<D> has an element identifier
\* whose form with the separators substituted is X and a time whose calendar date is
\* D, so no segment mixes partition keys
C11_PartitionPlacement ==
  \A f \in store : \A k \in 1..Len(f.rows) :
    /\ ColIndex(f.cols, S_NE) # 0 /\ TimeColIndex(f.cols) # 0
    /\ f.dir = S_NEeq \o ReplaceChar(ReplaceChar(RowNe(f, k), "/", "_"), "\\", "_")
    /\ f.date = RowTime(f, k) \div SecondsPerDay

\* one batch whose rows span two dates has been split into two segments
C11_Witness ==
  /\ Len(read) = 1
  /\ \E f, g \in store :
       /\ f.complete /\ g.complete /\ f.date # g.date
       /\ Len(f.rows) > 0 /\ Len(g.rows) > 0

\* C12: every written segment has a column labelled exactly Time and a column labelled
\* exactly NE, whatever the label of the time column in the source file and whether
\* or not the source has an NE column
C12_TimeAndNeColumns ==
  \A f \in store : f.complete => (HasCol(f.cols, S_Time) /\ HasCol(f.cols, S_NE))

\* the chunks read that have a time column and no NE column
NoNeChunks ==
  {n \in 1..Len(read) :
     /\ TimeColIndex(NormalizeCols(read[n].cols)) # 0
     /\ ~HasCol(NormalizeCols(read[n].cols), S_NE)}

\* every retained row of the chunks in N is in a segment that the locator finds for
\* the element ne, with ne as its element identifier
StoredUnder(N, ne) ==
  \A n \in N : \A k \in 1..Len(read[n].instants) :
    read[n].instants[k] # NaT =>
      \E f \in GlobParquet(store, dirs, ne) : \E j \in 1..Len(f.rows) :
        RowNe(f, j) = ne /\ RowTime(f, j) = read[n].instants[k]

Running(i) == inv[i].pc # "idle"

\* the run leaves a file: its index goes up by one, the next file starts at its first
\* row with nothing pending, and the segments written so far stay
LeavesOneFile(i) ==
  /\ inv'[i].fi = inv[i].fi + 1
  /\ inv'[i].off = 0 /\ inv'[i].pending = <<>> /\ inv'[i].pc = "chunk"
  /\ inv'[i].src = inv[i].src /\ inv'[i].chunksize = inv[i].chunksize
  /\ \A f \in store : f.complete => f \in store'

\* C14: a run attempts the files of the source directory one after another, each exactly
\* once: a failure in a file only moves on to the next file, as the end of the file
\* does, and leaves the segments written; the summary comes after the last file, and
\* every run reaches it
C14_EveryFileOnce ==
  /\ [][ (Running(1) /\ Running(1)') =>
           /\ inv'[1].fi # inv[1].fi => LeavesOneFile(1)
           /\ faults' # faults /\ inv[1].pc \in {"chunk", "group"} => LeavesOneFile(1) ]_vars
  /\ [][ (Running(1) /\ ~Running(1)') => inv[1].fi = Len(inv[1].src) + 1 ]_vars
  /\ [][ (~Running(1) /\ Running(1)') => (inv'[1].fi = 1 /\ inv'[1].off = 0) ]_vars
  /\ (Running(1) ~> ~Running(1))

\* a finished run over two files: the first failed, the second was processed and its
\* rows are stored
C14_Witness ==
  /\ ~Running(1) /\ faults = 1
  /\ inv[1].found = 2 /\ inv[1].processed = 1
  /\ \E f \in store : f.complete /\ Len(f.rows) > 0

\* C15: whatever a reader can locate at any moment of an ingestion is a completely
\* written segment: a file under the output root is never one whose writing has not
\* finished, neither while a write is in progress nor after a write has failed
C15_NoPartialSegment ==
  \A ne \in NeArgs : \A f \in GlobParquet(store, dirs, ne) : f.complete

RECURSIVE RowsPending(_)
RowsPending(groups) ==
  IF groups = <<>> THEN 0
  ELSE Len(Head(groups).table.rows) + RowsPending(Tail(groups))

\* the run is working on the batch it read last
InBatch(i) == inv[i].pc \notin {"idle", "chunk"}

\* C16: at every step of a run the rows it holds, the batch read last and the groups
\* made of it that are still to be written, are no more than chunksize rows
C16_OneBatchInMemory ==
  \A i \in Invs :
    /\ InBatch(i) => Len(read[Len(read)].rows) <= inv[i].chunksize
    /\ RowsPending(inv[i].pending) <= inv[i].chunksize

\* a batch of chunksize rows is held, of a file that has more rows than that
C16_Witness ==
  /\ InBatch(1)
  /\ Len(read[Len(read)].rows) = inv[1].chunksize
  /\ RowsPending(inv[1].pending) > 0
  /\ Len(CurFile(inv[1]).rows) > inv[1].chunksize

\* the group g is in the store as a segment of its partition
GroupStored(g) ==
  \E f \in store :
    /\ f.complete /\ f.date = g.date /\ f.rows = g.table.rows
    /\ f.dir = S_NEeq \o ReplaceChar(ReplaceChar(g.ne, "/", "_"), "\\", "_")

\* the batch read as n-th chunk was not discarded and all its groups are stored
BatchStored(n) ==
  LET groups == ChunkGroups(read[n]) IN
  /\ groups # <<>>
  /\ \A k \in 1..Len(groups) : GroupStored(groups[k])

\* C17: the files-processed figure counts only fully processed files: when a finished
\* run reports every file it found as processed, no batch was discarded and every
\* group of every batch is in a segment; the figure is never above the files found
C17_ProcessedMeansComplete ==
  /\ inv[1].processed <= inv[1].found
  /\ (~Running(1) /\ runs = 1 /\ inv[1].processed = inv[1].found) =>
       \A n \in 1..Len(read) : BatchStored(n)

\* C18: clean_time turns 10.06.2025 00.15.30 into a text with the clock 00:15:30, and
\* the time not-a-time does not parse, so that its row is dropped
C18_DottedClock ==
  /\ ct.given = T_dotted =>
       Contains(ct.cleaned, <<"0", "0", ":", "1", "5", ":", "3", "0">>)
  /\ ct.given = T_notatime => ct.instant = NaT

\* the element identifier that lines 116-119 give row k of chunk ch
NeOfInput(ch, k) ==
  LET nc == ColIndex(NormalizeCols(ch.cols), S_NE) IN
  IF nc = 0 THEN S_UNKNOWN_NE
  ELSE IF IsNa(ch.rows[k][nc]) THEN S_nan ELSE ch.rows[k][nc]

\* row k of chunk ch is in a segment with its time and element, and with its K1 field
\* as it was read, or missing where that was a missing-value token
InputRowStored(ch, k) ==
  LET kc == ColIndex(NormalizeCols(ch.cols), S_K1) IN
  \E f \in store : \E j \in 1..Len(f.rows) :
    /\ f.complete
    /\ RowTime(f, j) = ch.instants[k]
    /\ RowNe(f, j) = NeOfInput(ch, k)
    /\ kc # 0 =>
         f.rows[j][ColIndex(f.cols, S_K1)] =
           (IF ch.rows[k][kc] \in {S_NS, <<>>, S_NAtext} THEN NA ELSE ch.rows[k][kc])

\* a value a KPI column of a result can hold: a number or missing
NumberOrMissing(v) == IsNa(v) \/ (Len(v) = 2 /\ v[1] = "#")

\* C19: a row is kept whatever its KPI fields hold, and they cause no error.  After a
\* run without failure every row read with a time that parses (and an element
\* identifier that is no missing-value token) is in a segment, its KPI field unchanged
\* or missing; and a query over segments that have the columns it selects raises
\* nothing and returns exactly the rows that pass the time and TP filters, a KPI that
\* is no number being returned as missing
C19_KpiNeverDropsRow ==
  /\ (faults = 0 /\ \A i \in Invs : inv[i].pc = "idle") =>
       \A n \in 1..Len(read) : \A k \in 1..Len(read[n].instants) :
         (read[n].instants[k] # NaT /\ NeOfInput(read[n], k) # S_NS) =>
           InputRowStored(read[n], k)
  /\ ( /\ q.active /\ q.args.ne_given /\ q.args.kpis_given /\ Len(q.args.kpis) > 0
       /\ q.args.max_rows = 0
       /\ \A f \in Located :
            /\ f.complete /\ HasCol(f.cols, S_Time) /\ HasCol(f.cols, S_TP)
            /\ \A j \in 1..Len(q.args.kpis) : HasCol(f.cols, q.args.kpis[j]) ) =>
       /\ q.out.kind = "table"
       /\ SameBag([n \in 1..Len(q.out.rows) |-> <<q.out.rows[n][1], q.out.rows[n][2]>>],
                  Qualifying(q.args, ~q.duck))
       /\ \A n \in 1..Len(q.out.rows) : \A j \in 1..Len(q.out.cols) :
            (\E k \in 1..Len(q.args.kpis) : q.args.kpis[k] = q.out.cols[j]) =>
              NumberOrMissing(q.out.rows[n][j])

\* the (element identifier, date) pairs of the rows of a chunk that lines 109-122
\* retain: the rows whose time parses, with the element identifier of lines 116-119
RetainedPairs(chunk) ==
  LET cols == NormalizeCols(chunk.cols)
      tc   == TimeColIndex(cols)
  IN  IF tc = 0 THEN {}
      ELSE LET kept == DropNaT(ParseTimes(chunk.rows, tc), tc)
               t    == WithDate(WithNE([cols |-> cols, rows |-> kept]), tc)
               n    == ColIndex(t.cols, S_NE)
           IN  {<<t.rows[i][n], t.rows[i][Len(t.cols)]>> : i \in 1..Len(t.rows)}

\* the pairs of the first n batches read, counted batch by batch
RECURSIVE PairsRead(_)
PairsRead(n) ==
  IF n = 0 THEN 0 ELSE Cardinality(RetainedPairs(read[n])) + PairsRead(n - 1)

\* the run is between two batches, or has ended, and no write or read has failed
BatchesWritten == faults = 0 /\ inv[1].pc \in {"idle", "chunk"}

\* C20: a batch adds one segment for each (element identifier, date) pair among its
\* retained rows and none for another key.  When no write fails, after every batch the
\* store holds as many segments as the batches read so far have such pairs, also when
\* a partition already holds segments of earlier batches; and every segment lies in
\* the partition of a pair of a batch read
C20_OneSegmentPerGroup ==
  BatchesWritten =>
    /\ Cardinality(store) = PairsRead(Len(read))
    /\ \A f \in store : \E n \in 1..Len(read) : \E p \in RetainedPairs(read[n]) :
         f.dir = PartitionDirName(p[1]) /\ f.date = p[2]

\* run i fails at the first attempt to store a group: creating the partition
\* directory, or the first writer
FirstAttemptFails(i) ==
  /\ inv[i].pc \in {"group", "write1", "writing1"}
  /\ faults' = faults + 1

\* run i ends the second attempt to store a group, written or not
SecondAttemptEnds(i) ==
  /\ inv[i].pc \in {"write2", "writing2"}
  /\ inv'[i].pc # inv[i].pc /\ inv'[i].pc # "writing2"

\* C21: a failure to store a group, the creation of its partition directory included,
\* is followed by one further attempt with the other writer, for the same group; and
\* when that attempt ends the run goes on with the remaining groups of the batch, in
\* the same file at the same place
C21_RetryThenContinue ==
  [][\A i \in Invs :
       /\ FirstAttemptFails(i) =>
            /\ inv'[i].pc = "write2"
            /\ inv'[i].pending = inv[i].pending
            /\ inv'[i].fi = inv[i].fi /\ inv'[i].off = inv[i].off
       /\ SecondAttemptEnds(i) =>
            /\ inv'[i].pc = "group"
            /\ inv'[i].pending = Tail(inv[i].pending)
            /\ inv'[i].fi = inv[i].fi /\ inv'[i].off = inv[i].off]_vars

\* run i reads a batch that has no time column
DiscardsBatch(i) ==
  /\ inv[i].pc = "chunk" /\ inv'[i].pc = "group"
  /\ TimeColIndex(NormalizeCols(read'[Len(read')].cols)) = 0

\* the figures a run keeps and reports: files found and files processed
Counts(r) == <<r.found, r.processed>>

\* C22: a batch without time column is discarded as a whole and counted.  Reading it
\* leaves no group to write, changes neither the segments nor the directories, keeps
\* the run in the same file, and raises a figure the run keeps
C22_MalformedBatchCounted ==
  [][\A i \in Invs :
       DiscardsBatch(i) =>
         /\ inv'[i].pending = <<>>
         /\ store' = store /\ dirs' = dirs
         /\ inv'[i].fi = inv[i].fi
         /\ Counts(inv'[i]) # Counts(inv[i])]_vars

\* the text holds a digit, a dot, a digit, a dot and a digit in a row
HasDotTriple(s) ==
  \E k \in 1..(Len(s) - 4) :
    /\ IsDigit(s[k]) /\ s[k + 1] = "." /\ IsDigit(s[k + 2])
    /\ s[k + 3] = "." /\ IsDigit(s[k + 4])

\* C23: what clean_time returns for a text holds no digit-dot-digit-dot-digit
\* sequence, triples that overlap one another included
C23_NoDotTripleLeft ==
  ~IsNa(ct.given) => ~HasDotTriple(ct.cleaned)

\* C24: the row cutoff applies only when max_rows > 0.  A call with max_rows = 0 or
\* with a negative max_rows returns what the same call returns without cutoff, on
\* the DuckDB path and on the pandas path
C24_CutoffOnlyWhenPositive ==
  (q.active /\ q.args.max_rows <= 0) => q.out = Uncut

\* C25: every row that query_data returns for the element E has the element
\* identifier E; rows of another element are not returned
C25_ElementIsolation ==
  (q.active /\ q.out.kind = "table") =>
    LET n == ColIndex(q.out.cols, S_NE) IN
    \A k \in 1..Len(q.out.rows) : n # 0 /\ q.out.rows[k][n] = q.args.ne

\* C26: the writer and the reader derive the same directory from an element
\* identifier.  For every element identifier E of a stored row, separators included,
\* the files located for E are the segments written for rows of E: the row's segment
\* is among them, and every row of every one of them is a row of E
C26_WriterReaderAgree ==
  \A f \in store : \A k \in 1..Len(f.rows) :
    LET E == RowNe(f, k) IN
    /\ f \in GlobParquet(store, dirs, E)
    /\ \A g \in GlobParquet(store, dirs, E) : \A j \in 1..Len(g.rows) : RowNe(g, j) = E

\* C27: clean_time is idempotent: applied to a text it has returned, it returns that
\* text unchanged
C27_CleanTimeIdempotent ==
  clean_time(ct.cleaned) = ct.cleaned

\* the TP value holds the argument verbatim, in the case policy of the path: the
\* DuckDB path keeps case apart, the pandas path does not
HoldsVerbatim(tp, pat, duck) ==
  IF duck THEN Contains(tp, pat) ELSE Contains(Lower(tp), Lower(pat))

\* C28: the tp_contains filter is a literal substring test: a row is kept exactly
\* when its TP value holds the characters of tp_contains verbatim, on either path
C28_LiteralSubstring ==
  tf.pat # <<>> => (tf.kept <=> HoldsVerbatim(tf.tp, tf.pat, tf.duck))

\* the rows read so far whose time parses
ParsedRead == {k \in 1..Len(InstantsRead) : InstantsRead[k] # NaT}

\* C29: no row is lost at grouping.  When no write fails, after every batch the
\* segments hold as many rows as were read with a time that parses, whatever their
\* element identifier, the identifiers NS, NA and the empty one included
C29_NoRowLostAtGrouping ==
  BatchesWritten => RowsIn(store) = Cardinality(ParsedRead)

\* what the call returns when the located paths are enumerated in the other order
OtherOrder == query_data(store, dirs, q.duck, ~q.asc, q.args)

\* C30: the result is determined by the stored rows and the arguments.  The call
\* returns the same outcome, with the same columns and the same multiset of rows, in
\* whichever order the segment paths are enumerated, max_rows > 0 included
C30_OrderIndependent ==
  q.active =>
    /\ q.out.kind = OtherOrder.kind
    /\ q.out.cols = OtherOrder.cols
    /\ SameBag(q.out.rows, OtherOrder.rows)

====
